---- MODULE Spec2Model ----
(***************************************************************************)
(* Model of @ypear/timing (src/timing.js): the boundary calculators        *)
(* nextday, nextHour, nextMinute, nextSecond, the military timestamp       *)
(* codec, and the rolling scheduler every / checkEvery over the shared     *)
(* queue `upcomming`.                                                      *)
(*                                                                         *)
(* An Instant (milliseconds since the epoch) is kept as the pair           *)
(* <<day, ms>> with value day * MsPerDay + ms and 0 <= ms < MsPerDay, so   *)
(* that real dates fit the model checker's integers.  The JavaScript value *)
(* undefined is the empty tuple.                                           *)
(***************************************************************************)
EXTENDS Integers, Sequences, FiniteSets

VARIABLES
  clock,        \* the wall clock read by +new Date()
  tz,           \* offset of local time from UTC, in minutes
  settings,     \* timing.settings: queue depth per kind
  upcomming,    \* timing.upcomming: the shared queue of Instants
  now,          \* timing.now: the last fired Instant, or Undefined
  last,         \* record of the most recent every() call
  delivered,    \* every Instant handed to a callback so far, in order
  kindsUsed,    \* the kinds every() has been called with
  firstCallAt,  \* wall clock of the first every() call, or Undefined
  pollers,      \* the interval timers started by checkEvery
  count,        \* number of clock advances, of every() calls and of
                \* entries removed from the queue so far
  kinds,        \* the kind names the callers of this run pass to every()
  calc          \* the last direct call of a calculator or codec function

vars == <<clock, tz, settings, upcomming, now, last, delivered, kindsUsed,
          firstCallAt, pollers, count, kinds, calc>>

(***************************************************************************)
(* ECMAScript time values                                                  *)
(***************************************************************************)
MsPerSecond == 1000 * 1
MsPerMinute == 60 * MsPerSecond
MsPerHour == 60 * MsPerMinute
MsPerDay == 24 * MsPerHour

Undefined == <<>>

\* The one element of a singleton set.  Intermediate results are bound
\* through singleton sets, so that each is computed once.
Only(S) == CHOOSE x \in S : TRUE

\* Instant with the given day number and (possibly out of range) ms of day
Norm(d, ms) == <<d + (ms \div MsPerDay), ms % MsPerDay>>

AddMs(t, k) == Norm(t[1], t[2] + k)

Lt(a, b) == a[1] < b[1] \/ (a[1] = b[1] /\ a[2] < b[2])
Le(a, b) == a = b \/ Lt(a, b)

\* Day number of the civil date y-m-d (m in 1..12, d any integer)
DaysFromCivil(y, m, d) ==
  LET yy == IF m <= 2 THEN y - 1 ELSE y
      yoe == yy % 400
      mp == IF m > 2 THEN m - 3 ELSE m + 9
      doy == ((153 * mp + 2) \div 5) + d - 1
  IN (yy \div 400) * 146097
       + yoe * 365 + (yoe \div 4) - (yoe \div 100) + doy - 719468

\* Civil date [y, m, d] of a day number
CivilFromDays(z) ==
  Only({
    Only({
      Only({
        Only({
          LET m == IF mp < 10 THEN mp + 3 ELSE mp - 9
              y == yoe + ((z + 719468) \div 146097) * 400
          IN [y |-> IF m <= 2 THEN y + 1 ELSE y, m |-> m,
              d |-> doy - ((153 * mp + 2) \div 5) + 1]
          : mp \in {(5 * doy + 2) \div 153} })
        : doy \in {doe - (365 * yoe + (yoe \div 4) - (yoe \div 100))} })
      : yoe \in {(doe - (doe \div 1460) + (doe \div 36524) - (doe \div 146096))
                   \div 365} })
    : doe \in {(z + 719468) % 146097} })

\* ECMAScript HourFromTime, MinFromTime, SecFromTime, msFromTime
HourFromTime(t) == t[2] \div MsPerHour
MinFromTime(t) == (t[2] % MsPerHour) \div MsPerMinute
SecFromTime(t) == (t[2] % MsPerMinute) \div MsPerSecond
msFromTime(t) == t[2] % MsPerSecond

\* Date fields of a time value (month is 0-based as in JavaScript)
Fields(t) ==
  Only({ [year |-> c.y, month |-> c.m - 1, date |-> c.d,
          hours |-> HourFromTime(t), minutes |-> MinFromTime(t),
          seconds |-> SecFromTime(t), ms |-> msFromTime(t)]
         : c \in {CivilFromDays(t[1])} })

\* ECMAScript MakeDay / MakeTime / MakeDate: out-of-range fields carry over
MakeDay(year, month, date) ==
  DaysFromCivil(year + (month \div 12), (month % 12) + 1, 1) + date - 1

MakeTime(h, m, s, ms) == h * MsPerHour + m * MsPerMinute + s * MsPerSecond + ms

MakeDate(day, time) == Norm(day, time)

\* Local time of a time value and back, for a zone offset in minutes
LocalTime(t, off) == AddMs(t, off * MsPerMinute)
UTCTime(t, off) == AddMs(t, - off * MsPerMinute)

\* The local-time getters and setters of Date used by the calculators
getDate(t, off) == CivilFromDays(LocalTime(t, off)[1]).d
getHours(t, off) == HourFromTime(LocalTime(t, off))
getMinutes(t, off) == MinFromTime(LocalTime(t, off))
getSeconds(t, off) == SecFromTime(LocalTime(t, off))

setDate(t, off, dt) ==
  Only({ Only({ UTCTime(MakeDate(MakeDay(f.year, f.month, dt), l[2]), off)
                : f \in {Fields(l)} })
         : l \in {LocalTime(t, off)} })

setHours3(t, off, h, m, s) ==
  Only({ UTCTime(MakeDate(l[1], MakeTime(h, m, s, msFromTime(l))), off)
         : l \in {LocalTime(t, off)} })

setHours1(t, off, h) ==
  Only({ UTCTime(MakeDate(l[1], MakeTime(h, MinFromTime(l), SecFromTime(l),
                                         msFromTime(l))), off)
         : l \in {LocalTime(t, off)} })

setMinutes3(t, off, m, s, ms) ==
  Only({ UTCTime(MakeDate(l[1], MakeTime(HourFromTime(l), m, s, ms)), off)
         : l \in {LocalTime(t, off)} })

setMinutes1(t, off, m) ==
  Only({ UTCTime(MakeDate(l[1], MakeTime(HourFromTime(l), m, SecFromTime(l),
                                         msFromTime(l))), off)
         : l \in {LocalTime(t, off)} })

setSeconds2(t, off, s, ms) ==
  Only({ UTCTime(MakeDate(l[1], MakeTime(HourFromTime(l), MinFromTime(l), s,
                                         ms)), off)
         : l \in {LocalTime(t, off)} })

setSeconds1(t, off, s) ==
  Only({ UTCTime(MakeDate(l[1], MakeTime(HourFromTime(l), MinFromTime(l), s,
                                         msFromTime(l))), off)
         : l \in {LocalTime(t, off)} })

setMilliseconds(t, off, ms) ==
  Only({ UTCTime(MakeDate(l[1], MakeTime(HourFromTime(l), MinFromTime(l),
                                         SecFromTime(l), ms)), off)
         : l \in {LocalTime(t, off)} })

\* Math.round(m / 60) for an integer m >= 0: halves round up
RoundDiv60(m) == (2 * m + 60) \div 120

\* `date || (+new Date())`: undefined and 0 are falsy
Falsy(date) == date = Undefined \/ date = <<0, 0>>
OrNow(date, cur) == IF Falsy(date) THEN cur ELSE date

(***************************************************************************)
(* Boundary calculators.  `cur` is the wall clock read by +new Date(),     *)
(* `off` the local zone offset in minutes.  Each line of a calculator is   *)
(* one binding, innermost last.                                            *)
(***************************************************************************)
nextday(date, cur, off) ==
  Only({
    Only({
      Only({ setMinutes3(d2, off, 0, 0, 0)
             : d2 \in {setHours3(d1, off, 0, 0, 0)} })
      : d1 \in {setDate(d0, off, getDate(d0, off) + 1)} })
    : d0 \in {OrNow(date, cur)} })

\* The branch of nextHour on date.nh
nextHourSet(d0, nh, off) ==
  IF nh > 23
  THEN Only({ setDate(z, off, getDate(z, off) + 1) : z \in {setHours1(d0, off, 0)} })
  ELSE setHours1(d0, off, nh)

nextHour(date, cur, off) ==
  Only({
    Only({
      Only({ setMinutes3(d1, off, 0, 0, 0) : d1 \in {nextHourSet(d0, nh, off)} })
      : nh \in {getHours(d0, off) + RoundDiv60(getMinutes(d0, off))} })
    : d0 \in {OrNow(date, cur)} })

nextMinute(date, cur, off) ==
  Only({
    Only({ setSeconds2(d1, off, 0, 0)
           : d1 \in {setMinutes1(d0, off, getMinutes(d0, off) + 1)} })
    : d0 \in {OrNow(date, cur)} })

nextSecond(date, cur, off) ==
  Only({
    Only({ setMilliseconds(d1, off, 0)
           : d1 \in {setSeconds1(d0, off, getSeconds(d0, off) + 1)} })
    : d0 \in {OrNow(date, cur)} })

(***************************************************************************)
(* Military timestamp codec                                                *)
(***************************************************************************)
Digits == <<"0", "1", "2", "3", "4", "5", "6", "7", "8", "9">>

RECURSIVE NatToString(_)
NatToString(n) ==
  IF n < 10 THEN <<Digits[n + 1]>>
  ELSE NatToString(n \div 10) \o <<Digits[(n % 10) + 1]>>

\* Number.prototype.toString for an integer
toString(n) == IF n < 0 THEN <<"-">> \o NatToString(-n) ELSE NatToString(n)

\* String.prototype.padStart(2, '0') of the text of a number
PadStart2(str) == Only({IF Len(v) < 2 THEN <<"0">> \o v ELSE v : v \in {str}})

\* The UTC getters read the time value without the zone offset
unixToMilitary(unixTimestamp) ==
  Only({
    LET year == toString(f.year)
        month == PadStart2(toString(f.month + 1))
        day == PadStart2(toString(f.date))
        hours == PadStart2(toString(f.hours))
        minutes == PadStart2(toString(f.minutes))
    IN year \o <<"/">> \o month \o <<"/">> \o day \o <<"/">> \o hours
         \o <<"/">> \o minutes
    : f \in {Fields(unixTimestamp)} })

\* The time value NaN, and Number values: NaN or an integer
NaN == <<"NaN">>
NotANumber == [nan |-> TRUE, val |-> 0]
Num(n) == [nan |-> FALSE, val |-> n]

\* The characters StringToNumber skips at both ends, and the characters of
\* a decimal integer literal
WhiteSpace == {" "}
DigitChars == {Digits[i] : i \in DOMAIN Digits}

\* String.prototype.split(sep): the pieces between the separators
RECURSIVE split(_, _)
split(str, sep) ==
  IF \A i \in DOMAIN str : str[i] # sep THEN <<str>>
  ELSE Only({ <<SubSeq(str, 1, i - 1)>> \o split(SubSeq(str, i + 1, Len(str)), sep)
              : i \in {CHOOSE i \in DOMAIN str :
                         str[i] = sep /\ \A j \in 1..(i - 1) : str[j] # sep} })

\* The trimming StringToNumber applies
RECURSIVE Trim(_)
Trim(str) ==
  IF str = <<>> THEN str
  ELSE IF str[1] \in WhiteSpace THEN Trim(Tail(str))
  ELSE IF str[Len(str)] \in WhiteSpace THEN Trim(SubSeq(str, 1, Len(str) - 1))
  ELSE str

IsDigits(str) == Len(str) > 0 /\ \A i \in DOMAIN str : str[i] \in DigitChars

\* Value of a sequence of decimal digits
RECURSIVE DigitsValue(_)
DigitsValue(str) ==
  IF Len(str) = 0 THEN 0
  ELSE 10 * DigitsValue(SubSeq(str, 1, Len(str) - 1))
         + (CHOOSE d \in 0..9 : Digits[d + 1] = str[Len(str)])

\* StringToNumber: the empty or blank string is 0, a signed decimal integer
\* its value, any other text NaN
StringToNumber(v) ==
  Only({
    IF str = <<>> THEN Num(0)
    ELSE IF IsDigits(str) THEN Num(DigitsValue(str))
    ELSE IF str[1] = "-" /\ IsDigits(Tail(str)) THEN Num(- DigitsValue(Tail(str)))
    ELSE IF str[1] = "+" /\ IsDigits(Tail(str)) THEN Num(DigitsValue(Tail(str)))
    ELSE NotANumber
    : str \in {Trim(v)} })

\* ToNumber of the k-th name of `const [year, month, day, hours, minutes]`:
\* a name past the end of the array is undefined, which gives NaN
ToNumber(arr, k) == IF k \in DOMAIN arr THEN StringToNumber(arr[k]) ELSE NotANumber

\* a - b on Number values
Minus(a, b) == IF a.nan THEN NotANumber ELSE Num(a.val - b)

\* TimeClip: a time value beyond 100,000,000 days from the epoch is NaN
MaxTimeDays == 100000000
TimeClip(t) ==
  IF Lt(<<MaxTimeDays, 0>>, t) \/ Lt(t, <<- MaxTimeDays, 0>>) THEN NaN ELSE t

\* Date.UTC(year, month, date, hours, minutes): NaN if an argument is NaN;
\* a year of 0..99 stands for 1900 + year
DateUTC(year, month, date, hours, minutes) ==
  IF year.nan \/ month.nan \/ date.nan \/ hours.nan \/ minutes.nan THEN NaN
  ELSE Only({ TimeClip(MakeDate(MakeDay(yr, month.val, date.val),
                                MakeTime(hours.val, minutes.val, 0, 0)))
              : yr \in {IF 0 <= year.val /\ year.val <= 99
                        THEN 1900 + year.val ELSE year.val} })

militaryToUnix(formattedString) ==
  Only({ DateUTC(ToNumber(arr, 1), Minus(ToNumber(arr, 2), 1), ToNumber(arr, 3),
                 ToNumber(arr, 4), ToNumber(arr, 5))
         : arr \in {split(formattedString, "/")} })

(***************************************************************************)
(* Rolling scheduler                                                       *)
(***************************************************************************)
\* The property names every() may be called with: the keys of settings and
\* the names of the calculators (they differ for the day kind)
SettingKeys == {"nextDay", "nextHour", "nextMinute", "nextSecond"}
Calculators == {"nextday", "nextHour", "nextMinute", "nextSecond"}
Kinds == SettingKeys \cup Calculators

\* this[timing](date)
Calculate(timing, date, cur, off) ==
  CASE timing = "nextday" -> nextday(date, cur, off)
    [] timing = "nextHour" -> nextHour(date, cur, off)
    [] timing = "nextMinute" -> nextMinute(date, cur, off)
    [] timing = "nextSecond" -> nextSecond(date, cur, off)

\* this.upcomming.length < this.settings[timing]; a missing key gives
\* undefined and the comparison is false
NeedsMore(q, timing, st) == timing \in DOMAIN st /\ Len(q) < st[timing]

\* Mutant of TailOf: the refill reads the front of the queue
TailOfReadsFront(q) == IF Len(q) = 0 THEN Undefined ELSE q[1]

\* this.upcomming[this.upcomming.length - 1]
TailOf(q) == IF Len(q) = 0 THEN Undefined ELSE q[Len(q)]

\* The while loop of every(); it throws a TypeError at its first iteration
\* when this[timing] is not a function
RefillThrows(q, timing, st) == NeedsMore(q, timing, st) /\ timing \notin Calculators

\* The number of times the while loop of every() runs its body: each run
\* appends one entry
Iterations(q, timing, st) ==
  IF NeedsMore(q, timing, st) THEN st[timing] - Len(q) ELSE 0

\* Mutant of LoopBody: the next entry is computed from the clock, not
\* from the tail
LoopBodyFromClock(q, timing, cur, off) ==
  q \o <<Calculate(timing, Undefined, cur, off)>>

\* The body of the while loop
LoopBody(q, timing, cur, off) ==
  q \o <<Calculate(timing, TailOf(q), cur, off)>>

\* q after n runs of the loop body (n runs are n \div 2 runs followed by
\* the rest)
RECURSIVE Appended(_, _, _, _, _)
Appended(q, n, timing, cur, off) ==
  IF n = 0 THEN q
  ELSE IF n = 1 THEN LoopBody(q, timing, cur, off)
  ELSE Only({ Appended(half, n - (n \div 2), timing, cur, off)
              : half \in {Appended(q, n \div 2, timing, cur, off)} })

\* The while loop of every()
Refill(q, timing, st, cur, off) ==
  Appended(q, Iterations(q, timing, st), timing, cur, off)

\* Mutant of FrontIsPast: <= in place of <
FrontIsPastOrNow(q, cur) == Len(q) > 0 /\ Le(q[1], cur)

\* this.upcomming[0] < (+new Date()); undefined compares false
FrontIsPast(q, cur) == Len(q) > 0 /\ Lt(q[1], cur)

\* Mutant of FrontCheck: a while loop that pops every elapsed entry
RECURSIVE FrontCheckDrains(_, _, _)
FrontCheckDrains(q, nw, cur) ==
  IF FrontIsPast(q, cur)
  THEN Only({ [queue |-> rest.queue, now |-> rest.now,
               args |-> <<unixToMilitary(q[1])>> \o rest.args]
              : rest \in {FrontCheckDrains(Tail(q), q[1], cur)} })
  ELSE [queue |-> q, now |-> nw, args |-> <<>>]

\* The if statement of every(): the new queue, the new `now`, and the
\* arguments of the doSomething calls it makes
FrontCheck(q, nw, cur) ==
  IF FrontIsPast(q, cur)
  THEN [queue |-> Tail(q), now |-> q[1], args |-> <<unixToMilitary(q[1])>>]
  ELSE [queue |-> q, now |-> nw, args |-> <<>>]

\* One call of every(timing, doSomething)
every(timing, q, nw, st, cur, off) ==
  IF RefillThrows(q, timing, st)
  THEN [threw |-> TRUE, filled |-> q, queue |-> q, now |-> nw, args |-> <<>>]
  ELSE Only({
         Only({ [threw |-> FALSE, filled |-> filled, queue |-> c.queue,
                 now |-> c.now, args |-> c.args]
                : c \in {FrontCheck(filled, nw, cur)} })
         : filled \in {Refill(q, timing, st, cur, off)} })

(***************************************************************************)
(* Bounds of the model                                                     *)
(***************************************************************************)
MaxAdvances == 2
MaxCalls == 5
MaxPollers == 2
MaxEarlierCalls == 1
SmallDayDepth == 2
SmallHourDepth == 4
SmallMinuteDepth == 3
SmallSecondDepth == 2

\* Queue depths as shipped (settings of timing.js)
DefaultDayDepth == 7
DefaultHourDepth == 24
DefaultMinuteDepth == 60
DefaultSecondDepth == 60

At(y, m, d, hh, mm, ss, ms) == <<DaysFromCivil(y, m, d), MakeTime(hh, mm, ss, ms)>>

\* The hosts the runs start on: wall clock at start and zone offset in
\* minutes east of UTC
Hosts ==
  { [clock |-> At(2023, 6, 15, 10, 10, 0, 0), tz |-> 0],
    [clock |-> At(1999, 12, 31, 23, 59, 58, 500), tz |-> 0],
    [clock |-> At(2024, 2, 29, 18, 15, 30, 250), tz |-> 330],
    [clock |-> At(2023, 11, 5, 4, 59, 59, 999), tz |-> -300] }

\* Zone offsets of the hosts the calculators are called on
TZOffsets == {0, 330, -300}

\* Amounts by which the wall clock moves between two events
Deltas == {MsPerMinute, MsPerDay}

\* intervalMs values given to checkEvery
Intervals == {MsPerMinute}

\* The kind names one run's callers use
KindSets ==
  { {"nextMinute"}, {"nextSecond"}, {"nextHour"}, {"nextday"}, {"nextDay"},
    {"nextMinute", "nextHour"}, {"nextSecond", "nextday"} }

SettingsChoices ==
  { [nextDay |-> DefaultDayDepth, nextHour |-> DefaultHourDepth,
     nextMinute |-> DefaultMinuteDepth, nextSecond |-> DefaultSecondDepth],
    [nextDay |-> SmallDayDepth, nextHour |-> SmallHourDepth,
     nextMinute |-> SmallMinuteDepth, nextSecond |-> SmallSecondDepth],
    [nextDay |-> 1, nextHour |-> 1, nextMinute |-> 1, nextSecond |-> 1] }

(***************************************************************************)
(* State machine of the scheduler                                          *)
(***************************************************************************)
NoCall == [timing |-> "none", by |-> 0, at |-> Undefined, before |-> <<>>,
           nowBefore |-> Undefined, filled |-> <<>>, threw |-> FALSE, args |-> <<>>]

NoCalc == [fn |-> "none", arg |-> Undefined, res |-> Undefined]

\* The module object as exported: empty queue, no last-fired instant
Fresh ==
  /\ upcomming = <<>>
  /\ now = Undefined
  /\ last = NoCall
  /\ delivered = <<>>
  /\ kindsUsed = {}
  /\ firstCallAt = Undefined
  /\ pollers = <<>>
  /\ count = [advances |-> 0, calls |-> 0, popped |-> 0]
  /\ calc = NoCalc

Init ==
  /\ \E h \in Hosts : clock = h.clock /\ tz = h.tz
  /\ settings \in SettingsChoices
  /\ kinds \in KindSets
  /\ Fresh

Delivery(r, p) ==
  [k \in 1..Len(r.args) |-> [inst |-> r.filled[k], arg |-> r.args[k], by |-> p]]

\* The effect of one every() call made by `p` (0: a direct caller)
Called(timing, p, r) ==
  /\ upcomming' = r.queue
  /\ now' = r.now
  /\ last' = [timing |-> timing, by |-> p, at |-> clock, before |-> upcomming,
              nowBefore |-> now, filled |-> r.filled, threw |-> r.threw,
              args |-> r.args]
  /\ delivered' = delivered \o Delivery(r, p)
  /\ kindsUsed' = kindsUsed \cup {timing}
  /\ firstCallAt' = IF firstCallAt = Undefined THEN clock ELSE firstCallAt
  /\ count' = [count EXCEPT !.calls = @ + 1,
                           !.popped = @ + Len(r.filled) - Len(r.queue)]

\* timing.every(timing, cb) called directly, cb recording its argument
Every(timing) ==
  /\ count.calls < MaxCalls
  /\ \E r \in {every(timing, upcomming, now, settings, clock, tz)} :
       Called(timing, 0, r)
  /\ UNCHANGED <<clock, tz, settings, pollers, kinds, calc>>

\* Time passes
Advance(delta) ==
  /\ count.advances < MaxAdvances
  /\ clock' = AddMs(clock, delta)
  /\ count' = [count EXCEPT !.advances = @ + 1]
  /\ UNCHANGED <<tz, settings, upcomming, now, last, delivered, kindsUsed,
                 firstCallAt, pollers, kinds, calc>>

Next ==
  \/ \E timing \in kinds : Every(timing)
  \/ \E delta \in Deltas : Advance(delta)

Spec == Init /\ [][Next]_vars

(***************************************************************************)
(* checkEvery: interval timers polling every()                             *)
(***************************************************************************)
\* timing.checkEvery(timing, intervalMs, doSomething): setInterval arms a
\* timer; its callback first runs intervalMs later at the earliest
checkEvery(timing, intervalMs) ==
  /\ Len(pollers) < MaxPollers
  /\ pollers' = Append(pollers, [timing |-> timing, interval |-> intervalMs,
                                 calledAt |-> clock, armedAt |-> clock,
                                 firstRunAt |-> Undefined,
                                 active |-> TRUE, fires |-> 0])
  /\ UNCHANGED <<clock, tz, settings, upcomming, now, last, delivered, kindsUsed,
                 firstCallAt, count, kinds, calc>>

\* Mutant of OnPollerFire: the interval is not cleared
OnPollerFireKeepsTimer(po) == [po EXCEPT !.fires = @ + 1]

\* The callback checkEvery hands to every(): clearInterval(iv), then
\* doSomething(timestamp)
OnPollerFire(po) == [po EXCEPT !.active = FALSE, !.fires = @ + 1]

\* The poller after a run of its timer callback in which every() made
\* n calls of the callback
RECURSIVE AfterRun(_, _)
AfterRun(po, n) == IF n = 0 THEN po ELSE AfterRun(OnPollerFire(po), n - 1)

\* The interval timer of poller p expires and its callback runs every()
TimerExpiry(p) ==
  /\ count.calls < MaxCalls
  /\ pollers[p].active
  /\ Le(AddMs(pollers[p].armedAt, pollers[p].interval), clock)
  /\ \E r \in {every(pollers[p].timing, upcomming, now, settings, clock, tz)} :
       LET po == pollers[p]
           ran == [po EXCEPT !.armedAt = clock,
                             !.firstRunAt = IF @ = Undefined THEN clock ELSE @]
       IN /\ Called(po.timing, p, r)
          /\ pollers' = [pollers EXCEPT ![p] = AfterRun(ran, Len(r.args))]
  /\ UNCHANGED <<clock, tz, settings, kinds, calc>>

\* every() called directly before the first checkEvery
EarlierEvery(timing) ==
  /\ pollers = <<>>
  /\ count.calls < MaxEarlierCalls
  /\ Every(timing)

PollNext ==
  \/ \E timing \in kinds : EarlierEvery(timing)
  \/ \E timing \in kinds, intervalMs \in Intervals : checkEvery(timing, intervalMs)
  \/ \E p \in DOMAIN pollers : TimerExpiry(p)
  \/ \E delta \in Deltas : Advance(delta)

\* The polling runs: one kind per run, a shallow queue configured
PollInit ==
  /\ Init
  /\ Cardinality(kinds) = 1
  /\ settings.nextMinute <= SmallMinuteDepth

PollSpec == PollInit /\ [][PollNext]_vars

(***************************************************************************)
(* Re-entrant calls: every() called with a callback that calls every()     *)
(* again, to a given depth.  The module object is the record               *)
(* [queue, now, popped]; an entry is identified by its position in the     *)
(* order of appending, the number of entries removed before it plus its    *)
(* index in the queue.                                                     *)
(***************************************************************************)
MaxDepth == 2
MaxNestedCalls == 2

\* Mutant of BeforeCallback: the callback is called before the update
BeforeCallbackKeepsFront(obj) == obj

\* this.now = this.upcomming[0]; this.upcomming = this.upcomming.slice(1):
\* the module object at the time doSomething is called
BeforeCallback(obj) ==
  [queue |-> Tail(obj.queue), now |-> obj.queue[1], popped |-> obj.popped + 1]

\* One call of doSomething as the callback sees it: its argument, the entry
\* it is about, and `now` and the front entry of the queue at that time
CallbackCall(obj, atCall, level) ==
  [inst |-> obj.queue[1], arg |-> unixToMilitary(obj.queue[1]), by |-> 0,
   entry |-> obj.popped + 1, nowAtCall |-> atCall.now,
   frontAtCall |-> atCall.popped + 1, level |-> level]

\* every(timing, cb) where cb calls every(inner, cb) while depth > 0; an
\* exception of the inner call leaves every() through the callback
RECURSIVE everyNested(_, _, _, _, _, _, _, _)
everyNested(timing, inner, depth, level, obj, st, cur, off) ==
  IF RefillThrows(obj.queue, timing, st)
  THEN [queue |-> obj.queue, now |-> obj.now, popped |-> obj.popped,
        threw |-> TRUE, filled |-> obj.queue, calls |-> <<>>]
  ELSE Only({
    IF ~FrontIsPast(filled, cur)
    THEN [queue |-> filled, now |-> obj.now, popped |-> obj.popped,
          threw |-> FALSE, filled |-> filled, calls |-> <<>>]
    ELSE Only({
      Only({
        IF depth = 0
        THEN [queue |-> atCall.queue, now |-> atCall.now, popped |-> atCall.popped,
              threw |-> FALSE, filled |-> filled, calls |-> <<call>>]
        ELSE Only({ [queue |-> n.queue, now |-> n.now, popped |-> n.popped,
                     threw |-> n.threw, filled |-> filled,
                     calls |-> <<call>> \o n.calls]
                    : n \in {everyNested(inner, inner, depth - 1, level + 1,
                                         atCall, st, cur, off)} })
        : call \in {CallbackCall([obj EXCEPT !.queue = filled], atCall, level)} })
      : atCall \in {BeforeCallback([obj EXCEPT !.queue = filled])} })
    : filled \in {Refill(obj.queue, timing, st, cur, off)} })

\* timing.every(timing, cb) called directly, cb calling every(inner, cb)
\* down to the given depth
Reentrant(timing, inner, depth) ==
  /\ count.calls < MaxNestedCalls
  /\ \E r \in {everyNested(timing, inner, depth, 0,
                           [queue |-> upcomming, now |-> now,
                            popped |-> count.popped], settings, clock, tz)} :
       /\ upcomming' = r.queue
       /\ now' = r.now
       /\ last' = [timing |-> timing, by |-> 0, at |-> clock, before |-> upcomming,
                   nowBefore |-> now, filled |-> r.filled, threw |-> r.threw,
                   args |-> [k \in DOMAIN r.calls |-> r.calls[k].arg]]
       /\ delivered' = delivered \o r.calls
       /\ kindsUsed' = kindsUsed \cup {timing}
                         \cup (IF depth > 0 /\ r.calls # <<>> THEN {inner} ELSE {})
       /\ count' = [count EXCEPT !.calls = @ + 1, !.popped = r.popped]
  /\ firstCallAt' = IF firstCallAt = Undefined THEN clock ELSE firstCallAt
  /\ UNCHANGED <<clock, tz, settings, pollers, kinds, calc>>

ReentrantNext ==
  \/ \E timing \in kinds, inner \in kinds, depth \in 0..MaxDepth :
       Reentrant(timing, inner, depth)
  \/ \E delta \in Deltas : Advance(delta)

\* The re-entrant runs: a shallow queue configured, on the hosts in UTC
ReentrantInit ==
  /\ Init
  /\ settings.nextMinute <= SmallMinuteDepth
  /\ tz = 0

ReentrantSpec == ReentrantInit /\ [][ReentrantNext]_vars

(***************************************************************************)
(* Direct calls of the calculators                                         *)
(***************************************************************************)
RefDays ==
  { DaysFromCivil(1970, 1, 1), DaysFromCivil(1999, 12, 31),
    DaysFromCivil(2023, 6, 15), DaysFromCivil(2024, 2, 29),
    DaysFromCivil(2023, 4, 30) }

RefTimes ==
  { MakeTime(hh, mm, sm[1], sm[2]) :
      hh \in {0, 10, 23}, mm \in {0, 10, 29, 30, 45, 59},
      sm \in {<<0, 0>>, <<30, 1>>, <<59, 999>>} }

\* The arguments the calculators are called with; Undefined: no argument
RefInstants == {<<d, t>> : d \in RefDays, t \in RefTimes} \cup {Undefined}

CalcInit ==
  /\ clock = At(2023, 6, 15, 10, 10, 0, 0)
  /\ tz \in TZOffsets
  /\ settings = [nextDay |-> DefaultDayDepth, nextHour |-> DefaultHourDepth,
                 nextMinute |-> DefaultMinuteDepth,
                 nextSecond |-> DefaultSecondDepth]
  /\ kinds = {}
  /\ Fresh

\* One direct call per run
Returned(fn, date, res) ==
  /\ calc = NoCalc
  /\ \E v \in {res} : calc' = [fn |-> fn, arg |-> date, res |-> v]
  /\ UNCHANGED <<clock, tz, settings, upcomming, now, last, delivered, kindsUsed,
                 firstCallAt, pollers, count, kinds>>

CallNextday(date) == Returned("nextday", date, nextday(date, clock, tz))
CallNextHour(date) == Returned("nextHour", date, nextHour(date, clock, tz))
CallNextMinute(date) == Returned("nextMinute", date, nextMinute(date, clock, tz))
CallNextSecond(date) == Returned("nextSecond", date, nextSecond(date, clock, tz))

CalcNext ==
  \E date \in RefInstants :
    \/ CallNextday(date)
    \/ CallNextHour(date)
    \/ CallNextMinute(date)
    \/ CallNextSecond(date)

CalcSpec == CalcInit /\ [][CalcNext]_vars

(***************************************************************************)
(* Direct calls of the codec: unixToMilitary of an Instant, militaryToUnix *)
(* of a text, and each applied to the result of the other                  *)
(***************************************************************************)
MaxTrips == 2

\* A text with the given fields
RECURSIVE Slashed(_)
Slashed(fields) ==
  IF Len(fields) = 1 THEN fields[1]
  ELSE fields[1] \o <<"/">> \o Slashed(Tail(fields))

\* Fields of the texts given to militaryToUnix: numeric and not
TextFields ==
  { toString(2023), <<"0", "6">>, <<"1", "5">>, <<>>, <<"a", "b">>, <<"1", "a">> }

MaxFields == 6

\* Texts of 1 to MaxFields fields: the first two range over TextFields, the
\* others over two of them
Texts ==
  { Slashed(<<toString(2023)>> \o fs) :
      fs \in UNION {[1..n -> {<<"1", "0">>, <<"a", "b">>, <<>>}] : n \in 0..2} }
  \cup
  { Slashed(<<y, m, <<"1", "5">>, <<"1", "0">>>> \o fs) :
      y \in TextFields, m \in TextFields,
      fs \in UNION {[1..n -> {<<"1", "0">>, <<"x">>}] : n \in 0..(MaxFields - 4)} }

\* Instants given to unixToMilitary: those of the calculators and instants
\* of early, negative and five-digit years
CodecInstants ==
  (RefInstants \ {Undefined})
    \cup { At(y, 1, 1, 0, 0, 0, 0) : y \in {-1, 0, 1, 50, 99, 100, 1899, 12345} }
    \cup { At(50, 7, 4, 12, 34, 56, 789), At(1950, 7, 4, 12, 34, 56, 789) }

CodecInit == CalcInit

\* unixToMilitary(x) called with a fresh Instant, or with the Instant the
\* previous militaryToUnix call returned
CallUnixToMilitary(x) ==
  /\ \/ calc = NoCalc /\ x \in CodecInstants
     \/ /\ calc.fn = "militaryToUnix"
        /\ calc.trip # <<>>
        /\ Len(calc.trip) < MaxTrips
        /\ x = calc.res
        /\ x # NaN
  /\ \E text \in {unixToMilitary(x)} :
       calc' = [fn |-> "unixToMilitary", arg |-> x, res |-> text, threw |-> FALSE,
                trip |-> IF calc = NoCalc THEN <<x>> ELSE Append(calc.trip, x)]
  /\ UNCHANGED <<clock, tz, settings, upcomming, now, last, delivered, kindsUsed,
                 firstCallAt, pollers, count, kinds>>

\* militaryToUnix(text) called with a fresh text, or with the text the
\* previous unixToMilitary call returned.  No statement of it throws for a
\* string argument.
CallMilitaryToUnix(text) ==
  /\ \/ calc = NoCalc /\ text \in Texts
     \/ calc.fn = "unixToMilitary" /\ text = calc.res
  /\ \E v \in {militaryToUnix(text)} :
       calc' = [fn |-> "militaryToUnix", arg |-> text, res |-> v, threw |-> FALSE,
                trip |-> IF calc = NoCalc THEN <<>> ELSE calc.trip]
  /\ UNCHANGED <<clock, tz, settings, upcomming, now, last, delivered, kindsUsed,
                 firstCallAt, pollers, count, kinds>>

CodecNext ==
  \/ \E x \in CodecInstants \cup {calc.res} : CallUnixToMilitary(x)
  \/ \E text \in Texts \cup {calc.res} : CallMilitaryToUnix(text)

CodecSpec == CodecInit /\ [][CodecNext]_vars

(***************************************************************************)
(* Vocabulary of the claims                                                *)
(***************************************************************************)
\* Start of the minute / second an instant lies in
FloorTo(t, unit) == <<t[1], t[2] - (t[2] % unit)>>

\* The i-th start of a unit (minute, second) after instant t
BoundaryAfter(t, unit, i) == AddMs(FloorTo(t, unit), i * unit)

UnitOf(timing) == IF timing = "nextMinute" THEN MsPerMinute ELSE MsPerSecond

\* Entries of the refilled queue of the last call that were already past
PastEntries == {i \in DOMAIN last.filled : Lt(last.filled[i], last.at)}

SomeCall == last.timing # "none"

(***************************************************************************)
(* C1: one call of every() invokes the callback at most once, whatever the *)
(* queue holds and however many of its entries are already in the past.    *)
(***************************************************************************)
C1_AtMostOneCallback == SomeCall => Len(last.args) <= 1

\* a call that found every entry of a queue of two or more in the past
C1_Witness ==
  /\ SomeCall
  /\ Len(last.filled) >= 2
  /\ PastEntries = DOMAIN last.filled
  /\ Len(last.args) = 1

(***************************************************************************)
(* C2: after the refill, the callback runs iff the front entry is strictly *)
(* earlier than the clock; then exactly the front entry leaves the queue,  *)
(* becomes `now` and is passed on as unixToMilitary of it; otherwise       *)
(* neither the queue nor `now` changes and nothing is called.              *)
(***************************************************************************)
C2_FrontCheck ==
  (SomeCall /\ ~last.threw) =>
    LET f == last.filled
    IN IF Len(f) > 0 /\ Lt(f[1], last.at)
       THEN /\ last.args = <<unixToMilitary(f[1])>>
            /\ now = f[1]
            /\ Len(upcomming) = Len(f) - 1
            /\ \A i \in 1..Len(upcomming) : upcomming[i] = f[i + 1]
       ELSE /\ last.args = <<>>
            /\ now = last.nowBefore
            /\ upcomming = f

\* a call that fired and left entries behind
C2_Witness ==
  /\ SomeCall
  /\ Len(last.args) = 1
  /\ Len(upcomming) >= 1
  /\ now = last.filled[1]

(***************************************************************************)
(* C3: for each of the four kinds (day, hour, minute, second) a call of    *)
(* every() reaches its front check with at least settings[kind] entries,   *)
(* each appended entry being the kind's calculator applied to the entry    *)
(* before it (to the clock when the queue was empty).                      *)
(***************************************************************************)
\* The settings key and the calculator a kind name stands for
KeyOf(timing) == IF timing = "nextday" THEN "nextDay" ELSE timing
CalculatorOf(timing) == IF timing = "nextDay" THEN "nextday" ELSE timing

C3_EveryKindRefills ==
  SomeCall =>
    /\ ~last.threw
    /\ Len(last.filled) >= settings[KeyOf(last.timing)]
    /\ \A i \in (Len(last.before) + 1)..Len(last.filled) :
         last.filled[i] =
           Calculate(CalculatorOf(last.timing),
                     IF i = 1 THEN Undefined ELSE last.filled[i - 1], last.at, tz)

(***************************************************************************)
(* C4: in every reachable state the queue is non-decreasing, whatever      *)
(* kinds the calls used and whatever depths are configured.                *)
(***************************************************************************)
C4_QueueNonDecreasing ==
  \A i \in 1..(Len(upcomming) - 1) : Le(upcomming[i], upcomming[i + 1])

(***************************************************************************)
(* C5: catch-up.  As claimed: with only the minute kind (likewise only the *)
(* second kind) in use, every call that finds an elapsed boundary queued   *)
(* invokes the callback exactly once, and the timestamps handed to the     *)
(* callback are the consecutive boundaries following the first call, in    *)
(* order, none skipped and none delivered twice.                           *)
(***************************************************************************)
OnlyKind(timing) == kindsUsed = {timing}

OneFirePerElapsedCall == PastEntries # {} => Len(last.args) = 1

ConsecutiveBoundaries(timing) ==
  \A i \in DOMAIN delivered :
    /\ delivered[i].inst = BoundaryAfter(firstCallAt, UnitOf(timing), i)
    /\ delivered[i].arg = unixToMilitary(delivered[i].inst)

NoTimestampTwice ==
  \A i, j \in DOMAIN delivered : i # j => delivered[i].arg # delivered[j].arg

C5_CatchUpAsClaimed ==
  \A timing \in {"nextMinute", "nextSecond"} :
    OnlyKind(timing) =>
      /\ OneFirePerElapsedCall
      /\ ConsecutiveBoundaries(timing)
      /\ NoTimestampTwice

\* C5 as amended: the same with a queue depth of at least 2; the boundaries
\* popped are consecutive and each is passed on as its unixToMilitary text,
\* which is distinct per boundary for the minute kind only (it has minute
\* granularity, so the second boundaries of one minute share a text).
C5_CatchUp ==
  \A timing \in {"nextMinute", "nextSecond"} :
    (OnlyKind(timing) /\ settings[timing] >= 2) =>
      /\ OneFirePerElapsedCall
      /\ ConsecutiveBoundaries(timing)
      /\ timing = "nextMinute" => NoTimestampTwice

\* more boundaries caught up, one per call, than the queue is deep
C5_Witness ==
  /\ OnlyKind("nextMinute")
  /\ settings.nextMinute >= 2
  /\ Len(delivered) > settings.nextMinute
  /\ count.calls = Len(delivered) + 1

(***************************************************************************)
(* C7: the daily task of the README, every('nextday', cb) called over and  *)
(* over while time passes: once the local midnight following the first     *)
(* call is in the past, a call has invoked cb.                             *)
(***************************************************************************)
\* Start of the local day after the local day of t
NextLocalMidnight(t, off) == UTCTime(<<LocalTime(t, off)[1] + 1, 0>>, off)

C7_DailyTaskFires ==
  (OnlyKind("nextday") /\ Lt(NextLocalMidnight(firstCallAt, tz), last.at)) =>
    Len(delivered) >= 1

(***************************************************************************)
(* C8: on an empty queue at t0 with minute depth n, the first              *)
(* every('nextMinute', cb) leaves exactly the n minute starts following t0 *)
(* and does not invoke cb; nor does any later call made while the clock is *)
(* at or before the first of them.                                         *)
(***************************************************************************)
C8_FirstMinuteFill ==
  /\ (count.calls = 1 /\ last.timing = "nextMinute") =>
       /\ upcomming = [i \in 1..settings.nextMinute |->
                         BoundaryAfter(last.at, MsPerMinute, i)]
       /\ last.args = <<>>
  /\ (OnlyKind("nextMinute")
        /\ Le(clock, BoundaryAfter(firstCallAt, MsPerMinute, 1))) =>
       delivered = <<>>

\* a second call made exactly at the first queued minute start
C8_Witness ==
  /\ OnlyKind("nextMinute")
  /\ settings.nextMinute = SmallMinuteDepth
  /\ count.calls >= 2
  /\ last.at = BoundaryAfter(firstCallAt, MsPerMinute, 1)
  /\ Len(upcomming) = SmallMinuteDepth

(***************************************************************************)
(* C6: one checkEvery(kind, intervalMs, onFire) invokes onFire exactly     *)
(* once: its timer runs every() until the first run that fires, the timer  *)
(* is then cancelled and onFire called, and never again.  Stated so that a *)
(* finite run decides it: onFire is never called twice, the timer is armed *)
(* exactly as long as onFire has not been called, and once the boundary of *)
(* the kind that follows the poller's first run is in the past at one of   *)
(* its runs, onFire has been called.                                       *)
(***************************************************************************)
\* Start of the next local day, hour, minute or second after t
NextBoundary(timing, t, off) ==
  CASE timing \in {"nextDay", "nextday"} -> NextLocalMidnight(t, off)
    [] timing = "nextHour" ->
         UTCTime(BoundaryAfter(LocalTime(t, off), MsPerHour, 1), off)
    [] timing = "nextMinute" -> BoundaryAfter(t, MsPerMinute, 1)
    [] timing = "nextSecond" -> BoundaryAfter(t, MsPerSecond, 1)

PollerOneShot(p) ==
  /\ pollers[p].fires <= 1
  /\ pollers[p].active <=> pollers[p].fires = 0

PollerFiresOnceDue(p) ==
  (/\ Len(pollers) = 1
   /\ last.by = p
   /\ Lt(NextBoundary(pollers[p].timing, pollers[p].firstRunAt, tz), last.at)) =>
    pollers[p].fires = 1

C6_ExactlyOnce ==
  \A p \in DOMAIN pollers : PollerOneShot(p) /\ PollerFiresOnceDue(p)

\* What holds of every poller, and of the kinds other than day
C6_OneShotOtherKinds ==
  \A p \in DOMAIN pollers :
    /\ PollerOneShot(p)
    /\ pollers[p].timing \notin {"nextDay", "nextday"} => PollerFiresOnceDue(p)

(***************************************************************************)
(* C9: nextHour(ref) has minutes, seconds and milliseconds zero; with the  *)
(* minutes of ref in 0..29 it is the start of ref's own hour, in 30..59    *)
(* the start of the following hour, which after 23:30 is 00:00 of the next *)
(* calendar day, also across month and year ends.  Read in local time; ref *)
(* is the argument, or the clock when there is none.                       *)
(***************************************************************************)
Epoch == <<0, 0>>

\* The reference of a call: its argument, the clock without one
RefOfCall == IF calc.arg = Undefined THEN clock ELSE calc.arg

StartOfLocalHour(t, off) == UTCTime(FloorTo(LocalTime(t, off), MsPerHour), off)

LocalMinutes(t, off) == (LocalTime(t, off)[2] % MsPerHour) \div MsPerMinute

NextHourRounds ==
    /\ LocalTime(calc.res, tz)[2] % MsPerHour = 0
    /\ LocalMinutes(RefOfCall, tz) <= 29 =>
         calc.res = StartOfLocalHour(RefOfCall, tz)
    /\ LocalMinutes(RefOfCall, tz) >= 30 =>
         calc.res = AddMs(StartOfLocalHour(RefOfCall, tz), MsPerHour)
    /\ (tz = 0 /\ calc.arg = At(2023, 6, 15, 23, 45, 0, 0)) =>
         calc.res = At(2023, 6, 16, 0, 0, 0, 0)
    /\ (tz = 0 /\ calc.arg = At(2023, 6, 15, 10, 10, 0, 0)) =>
         calc.res = At(2023, 6, 15, 10, 0, 0, 0)

C9_NextHourRounds == calc.fn = "nextHour" => NextHourRounds

\* What holds: the same for every ref other than the instant 0, which the
\* calculators read as no argument
C9_NextHourRoundsNonZero ==
  (calc.fn = "nextHour" /\ calc.arg # Epoch) => NextHourRounds

\* 23:45 local on the last day of a year gives 00:00 of January 1st
C9_YearEndReached ==
  /\ calc.fn = "nextHour"
  /\ tz = 0
  /\ calc.arg = At(1999, 12, 31, 23, 45, 59, 999)
  /\ calc.res = At(2000, 1, 1, 0, 0, 0, 0)

(***************************************************************************)
(* C10: for every Instant x, x = 0 and exact minute starts included,       *)
(* nextMinute(x) has zero seconds and milliseconds and lies in             *)
(* (x, x + 60000].                                                         *)
(***************************************************************************)
InNextMinute(x, res) ==
  /\ res[2] % MsPerMinute = 0
  /\ Lt(x, res)
  /\ Le(res, AddMs(x, MsPerMinute))

C10_NextMinuteRange ==
  (calc.fn = "nextMinute" /\ calc.arg # Undefined) => InNextMinute(calc.arg, calc.res)

\* What holds: the same for every x other than 0
C10_NextMinuteRangeNonZero ==
  (calc.fn = "nextMinute" /\ calc.arg \notin {Undefined, Epoch}) =>
    InNextMinute(calc.arg, calc.res)

(***************************************************************************)
(* C11: for every Instant x, nextday(x) is 00:00:00.000 of the calendar    *)
(* day following x's day, whatever the time of day of x (midnight itself   *)
(* and non-zero milliseconds included), across month and year ends.  Read  *)
(* in local time.                                                          *)
(***************************************************************************)
IsNextMidnight(x, res) ==
  /\ LocalTime(res, tz)[2] = 0
  /\ LocalTime(res, tz)[1] = LocalTime(x, tz)[1] + 1
  /\ res = NextLocalMidnight(x, tz)

C11_NextdayNextMidnight ==
  (calc.fn = "nextday" /\ calc.arg # Undefined) => IsNextMidnight(calc.arg, calc.res)

\* What holds: the same for every x other than the instant 0
C11_NextdayNonZero ==
  (calc.fn = "nextday" /\ calc.arg \notin {Undefined, Epoch}) =>
    IsNextMidnight(calc.arg, calc.res)

\* 23:59:59.999 on the last day of a leap February gives March 1st
C11_MonthEndReached ==
  /\ calc.fn = "nextday"
  /\ tz = 0
  /\ calc.arg = At(2024, 2, 29, 23, 59, 59, 999)
  /\ calc.res = At(2024, 3, 1, 0, 0, 0, 0)

(***************************************************************************)
(* C12: round trip.  For every valid Instant x,                            *)
(* militaryToUnix(unixToMilitary(x)) is x truncated down to the start of   *)
(* its UTC minute, and a second round trip returns the same Instant.       *)
(***************************************************************************)
RoundTripped == calc.fn = "militaryToUnix" /\ calc.trip # <<>>

C12_RoundTrip ==
  RoundTripped =>
    /\ calc.res = FloorTo(calc.trip[1], MsPerMinute)
    /\ calc.res = FloorTo(calc.trip[Len(calc.trip)], MsPerMinute)
    /\ Len(calc.trip) >= 2 => calc.res = calc.trip[2]

\* What holds: the same for the Instants outside the years 0 to 99
YearOf(t) == CivilFromDays(t[1]).y

C12_RoundTripFromYear100 ==
  (RoundTripped /\ YearOf(calc.trip[1]) \notin 0..99) =>
    /\ calc.res = FloorTo(calc.trip[1], MsPerMinute)
    /\ Len(calc.trip) >= 2 => calc.res = calc.trip[2]

\* a second round trip of an Instant with seconds and milliseconds
C12_SecondTripReached ==
  /\ RoundTripped
  /\ Len(calc.trip) = 2
  /\ calc.trip[1] = At(2024, 2, 29, 23, 59, 59, 999)
  /\ calc.res = At(2024, 2, 29, 23, 59, 0, 0)

(***************************************************************************)
(* C13: militaryToUnix(text) fails with a parsing error and returns no     *)
(* Instant whenever text has fewer or more than five '/'-separated fields  *)
(* or one of its fields is not a number.                                   *)
(***************************************************************************)
\* The fields of a text, read off its separators
FieldCount(text) == Cardinality({i \in DOMAIN text : text[i] = "/"}) + 1

\* A field that is not a number: empty, or holding a character other than
\* a digit
NonNumericField(text) ==
  \E arr \in {split(text, "/")} : \E k \in DOMAIN arr : ~IsDigits(arr[k])

Malformed(text) == FieldCount(text) # 5 \/ NonNumericField(text)

C13_ParseError ==
  (calc.fn = "militaryToUnix" /\ Malformed(calc.arg)) =>
    /\ calc.threw
    /\ calc.res = NaN

\* What the code does with a malformed text: it never throws; it returns
\* NaN when one of the first five fields is missing or is text that is not
\* a number, and a time value otherwise
C13_ReturnsWithoutError ==
  calc.fn = "militaryToUnix" =>
    /\ ~calc.threw
    /\ (calc.res = NaN) <=>
         \E k \in 1..5 : ToNumber(split(calc.arg, "/"), k).nan

\* a text of six numeric fields, for which an Instant is returned
C13_SixFieldsReached ==
  /\ calc.fn = "militaryToUnix"
  /\ FieldCount(calc.arg) = 6
  /\ ~NonNumericField(calc.arg)
  /\ calc.res = At(2023, 6, 15, 10, 10, 0, 0)

(***************************************************************************)
(* C14: the hour schedule makes progress.  With only the kind 'nextHour'   *)
(* in use, every entry appended to the queue is strictly later than the    *)
(* entry (or the clock) it was computed from, the queue is strictly        *)
(* increasing, the first call on the empty queue does not fire, and the    *)
(* instants delivered are strictly increasing.                             *)
(***************************************************************************)
\* What the i-th entry of the refilled queue was computed from
ComputedFrom(i) == IF i = 1 THEN last.at ELSE last.filled[i - 1]

AppendedLater ==
  \A i \in (Len(last.before) + 1)..Len(last.filled) :
    Lt(ComputedFrom(i), last.filled[i])

StrictlyIncreasing(q) == \A i \in 1..(Len(q) - 1) : Lt(q[i], q[i + 1])

DeliveredInstants == [i \in DOMAIN delivered |-> delivered[i].inst]

C14_HourProgress ==
  OnlyKind("nextHour") =>
    /\ AppendedLater
    /\ StrictlyIncreasing(upcomming)
    /\ count.calls = 1 => last.args = <<>>
    /\ StrictlyIncreasing(DeliveredInstants)

\* What the code does: each hour entry computed from an entry is that same
\* entry again, and the first entry is the nearest hour of the clock
C14_HourRepeats ==
  OnlyKind("nextHour") =>
    /\ \A i \in 1..(Len(upcomming) - 1) : upcomming[i] = upcomming[i + 1]
    /\ \A i \in (Len(last.before) + 1)..Len(last.filled) :
         Le(last.filled[i], AddMs(ComputedFrom(i), MsPerHour \div 2))

\* the same hour boundary delivered by two calls
C14_SameHourTwiceReached ==
  /\ OnlyKind("nextHour")
  /\ Len(delivered) >= 2
  /\ delivered[1].inst = delivered[2].inst

(***************************************************************************)
(* C15: checkEvery waits for the next boundary.  The instant delivered to  *)
(* onFire is later than the time at which its checkEvery call was made,    *)
(* also when the queue was populated by earlier every() or checkEvery()    *)
(* calls and the clock has advanced in between.                            *)
(***************************************************************************)
DeliveredAfterCall(i) ==
  delivered[i].by # 0 => Lt(pollers[delivered[i].by].calledAt, delivered[i].inst)

C15_WaitsForNextBoundary == \A i \in DOMAIN delivered : DeliveredAfterCall(i)

\* What holds: a single poller of the minute or second kind that found the
\* queue empty is handed a boundary later than its checkEvery call
C15_WaitsOnEmptyQueue ==
  (/\ Len(pollers) = 1
   /\ pollers[1].timing \in {"nextMinute", "nextSecond"}
   /\ \A i \in DOMAIN delivered : delivered[i].by = 1
   /\ count.calls > 0 => pollers[1].firstRunAt = firstCallAt) =>
    C15_WaitsForNextBoundary

\* a boundary of the minute kind, queued by an earlier call, delivered to a
\* poller whose checkEvery was made after that boundary
C15_StaleDeliveredReached ==
  /\ Len(pollers) >= 1
  /\ pollers[1].timing = "nextMinute"
  /\ Len(delivered) >= 1
  /\ delivered[1].by = 1
  /\ Lt(delivered[1].inst, pollers[1].calledAt)

(***************************************************************************)
(* C16: two or more checkEvery pollers of one kind over the shared queue.  *)
(* In every interleaving of their timer callbacks each queue entry goes to *)
(* at most one callback, each poller's onFire is invoked once and no       *)
(* more, and the pollers receive different boundary instants.              *)
(***************************************************************************)
DeliveriesTo(p) == {i \in DOMAIN delivered : delivered[i].by = p}

SeveralPollers ==
  /\ Len(pollers) >= 2
  /\ \A p, q \in DOMAIN pollers : pollers[p].timing = pollers[q].timing

\* a timer run that finds an elapsed entry at the front invokes onFire
FiresOnElapsedFront(p) ==
  (last.by = p /\ last.filled # <<>> /\ Lt(last.filled[1], last.at)) =>
    pollers[p].fires = 1

PollersShareQueue ==
  /\ \A p \in DOMAIN pollers :
       /\ PollerOneShot(p)
       /\ FiresOnElapsedFront(p)
       /\ Cardinality(DeliveriesTo(p)) = pollers[p].fires
  /\ \A i, j \in DOMAIN delivered :
       (i # j /\ delivered[i].by # 0 /\ delivered[j].by # 0) =>
         delivered[i].inst # delivered[j].inst

C16_PollersDistinct == SeveralPollers => PollersShareQueue

\* What holds: the same for pollers of the minute and of the second kind
C16_MinuteSecondPollersDistinct ==
  (SeveralPollers /\ pollers[1].timing \in {"nextMinute", "nextSecond"}) =>
    PollersShareQueue

\* two pollers of the hour kind handed the same hour
C16_SameHourToBothReached ==
  /\ SeveralPollers
  /\ pollers[1].timing = "nextHour"
  /\ Len(delivered) = 2
  /\ delivered[1].by # delivered[2].by
  /\ delivered[1].inst = delivered[2].inst

\* two pollers of the minute kind, both fired, the second timer first
C16_BothMinutePollersFiredReached ==
  /\ SeveralPollers
  /\ pollers[1].timing = "nextMinute"
  /\ pollers[1].fires = 1 /\ pollers[2].fires = 1
  /\ delivered[1].by = 2

(***************************************************************************)
(* C17: every() completes its state update before it calls out.  When the  *)
(* callback runs, the entry it is handed has left the queue and is `now`;  *)
(* a callback that calls every() again, to any depth, is never handed the  *)
(* entry being delivered, and no queue entry is delivered twice in a run.  *)
(***************************************************************************)
UpdatedBeforeCallback(i) ==
  /\ delivered[i].nowAtCall = delivered[i].inst
  /\ delivered[i].frontAtCall > delivered[i].entry

C17_UpdateBeforeCallback ==
  /\ \A i \in DOMAIN delivered : UpdatedBeforeCallback(i)
  /\ \A i, j \in DOMAIN delivered :
       i # j => delivered[i].entry # delivered[j].entry
  /\ count.popped = Len(delivered)

\* one call whose callback called every() twice over, three entries handed
\* out in turn
C17_Witness ==
  /\ Len(last.args) = 3
  /\ delivered[Len(delivered)].level = 2
  /\ delivered[Len(delivered)].entry = delivered[Len(delivered) - 2].entry + 2

(***************************************************************************)
(* C18: the queue stays bounded.  Its length never exceeds the largest     *)
(* settings depth among the kinds called so far; when only one kind k has  *)
(* been used the length after a call is settings[k] if the call did not    *)
(* fire and settings[k] - 1 if it fired; and a last-fired instant, when    *)
(* there is one, is less than or equal to every entry still queued.        *)
(***************************************************************************)
DepthsUsed == {settings[KeyOf(k)] : k \in kindsUsed}

WithinLargestDepth ==
  Len(upcomming) = 0 \/ \E m \in DepthsUsed : Len(upcomming) <= m

LengthAfterCall(k) ==
  Len(upcomming) = settings[KeyOf(k)] - (IF last.args = <<>> THEN 0 ELSE 1)

LastFiredFirst ==
  now # Undefined => \A i \in DOMAIN upcomming : Le(now, upcomming[i])

C18_QueueBounded ==
  /\ WithinLargestDepth
  /\ \A k \in Kinds : OnlyKind(k) => LengthAfterCall(k)
  /\ LastFiredFirst

\* What holds: the bound on the length always; the exact length for the
\* hour, minute and second kinds; the last-fired instant before the queue
\* as long as one kind is in use
C18_BoundedOtherKinds ==
  /\ WithinLargestDepth
  /\ \A k \in {"nextHour", "nextMinute", "nextSecond"} :
       OnlyKind(k) => LengthAfterCall(k)
  /\ Cardinality(kindsUsed) <= 1 => LastFiredFirst

\* a last-fired instant later than an entry still queued
C18_LastFiredAfterEntryReached ==
  /\ now # Undefined
  /\ \E i \in DOMAIN upcomming : Lt(upcomming[i], now)

\* the day kind called, the queue still empty
C18_DayQueueEmptyReached ==
  /\ OnlyKind("nextday")
  /\ count.calls >= 2
  /\ upcomming = <<>>

====
